---- MODULE Spec2Model ----
(***************************************************************************)
(* A model of the interactive shell of src/src/main.rs: the redirection    *)
(* parser (handle_tokens), the command resolver (search_command), the five *)
(* builtins, the output routing and the REPL loop of main.                 *)
(*                                                                         *)
(* Strings are the program's strings.  A raw input line is represented by  *)
(* the sequence of its whitespace-separated words; the only quoting that   *)
(* occurs in the modelled inputs is a lone quote character, which makes    *)
(* the tokenizer fail.  Option<T> is a sequence of length 0 (None) or 1    *)
(* (Some).                                                                 *)
(***************************************************************************)
EXTENDS Integers, Sequences, FiniteSets, TLC

VARIABLES
    pc,         \* position of main: "Prompt", "ReadLine", "Wait", "Exited"
                \* ("Parse" / "Parsed" in the parser-only specification)
    cwd,        \* the process's current working directory
    home,       \* the HOME environment variable, Option<String>
    files,      \* the regular files of the file system: path -> [exists, data]
    eof,        \* standard input is exhausted
    input,      \* the words of the line read in this iteration
    tokenized,  \* Option<TokenizerResult> of this iteration
    emitted,    \* the OutputLines the builtin of this iteration added to Output
    term_out,   \* what this iteration wrote to the inherited stdout
    term_err,   \* what this iteration wrote to the inherited stderr
    handles,    \* the redirect file handles the shell process holds
    children,   \* the child processes that are alive
    exit_code,  \* Option<i32>: the code the process terminated with
    last_cd     \* history: target of the most recent successful cd

vars == <<pc, cwd, home, files, eof, input, tokenized, emitted, term_out,
          term_err, handles, children, exit_code, last_cd>>

(***************************************************************************)
(* Bounds                                                                  *)
(***************************************************************************)
MaxArgs == 1
MaxFileLines == 2
MaxTokens == 5

(***************************************************************************)
(* Option, and small helpers                                               *)
(***************************************************************************)
None == <<>>
Some(x) == <<x>>
IsSome(o) == Len(o) = 1
Unwrap(o) == o[1]

SeqsUpTo(S, n) == UNION {[1..k -> S] : k \in 0..n}

\* slice::join(" ")
RECURSIVE JoinFrom(_, _)
JoinFrom(args, i) ==
    IF i > Len(args) THEN ""
    ELSE IF i = Len(args) THEN args[i]
    ELSE args[i] \o " " \o JoinFrom(args, i + 1)

Join(args) == JoinFrom(args, 1)

(***************************************************************************)
(* The environment: file system, PATH, the words of the input              *)
(***************************************************************************)
Quote == "'"
RedirOps == {">", "1>", ">>", "1>>", "2>", "2>>"}

Directories == {"/", "/tmp"}
FilePaths == {"/out"}
HomeValues == {None, Some("/tmp"), Some("/nx")}

\* PATH, in order, and the executable regular files of each directory.
\* /bin/echo exists as well: the builtin shadows it.
PathDirs == <<"/usr/bin", "/bin">>
ExecutablesIn(dir) ==
    IF dir = "/usr/bin" THEN {"ls"}
    ELSE IF dir = "/bin" THEN {"ls", "echo"}
    ELSE {}

ChildLine == "ls: output\n"

CmdWords == {"exit", "echo", "type", "pwd", "cd", "ls", "nope"}
ArgWords == {"/tmp", "/nx", "~", "42", "-7", "2147483648", "ls", "echo"}
RedirPaths == {"/out", "/tmp"}
RedirBases == {<<"echo", "hi">>, <<"exit", "42", "42">>, <<"ls">>, <<"nope">>}

PlainLines == {<<c>> \o a : c \in CmdWords, a \in SeqsUpTo(ArgWords, MaxArgs)}
TwoArgLines == {<<c, "/tmp", "42">> : c \in CmdWords}
OneRedir == {<<o, p>> : o \in RedirOps, p \in RedirPaths}
TwoRedirs == {r1 \o r2 : r1 \in OneRedir, r2 \in OneRedir}
Dangling == {r \o <<o>> : r \in OneRedir \cup {<<>>}, o \in RedirOps}
RedirLines == {b \o r : b \in RedirBases, r \in OneRedir \cup TwoRedirs \cup Dangling}
QuoteLines == {<<Quote>>, <<"echo", Quote>>, <<"echo", "hi", ">", "/out", Quote>>}
Lines == {<<>>} \cup PlainLines \cup TwoArgLines \cup RedirLines \cup QuoteLines

(***************************************************************************)
(* Tokenizer (shell_words::split on the trimmed line)                      *)
(***************************************************************************)
shell_words_split(line) ==
    IF \E i \in 1..Len(line) : line[i] = Quote
    THEN [is_err |-> TRUE, tokens |-> <<>>]
    ELSE [is_err |-> FALSE, tokens |-> line]

(***************************************************************************)
(* Redirection parser                                                      *)
(***************************************************************************)
NewTokenizerResult(command) ==
    [command |-> command, args |-> <<>>,
     redirect_stdout |-> None, append_stdout |-> FALSE,
     redirect_stderr |-> None, append_stderr |-> FALSE]

\* the body of the while loop, i is the 1-based index of tokens[i]
RECURSIVE ScanTokens(_, _, _)
ScanTokens(tokens, i, result) ==
    IF i > Len(tokens) THEN Some(result)
    ELSE IF tokens[i] \in {">", "1>"} THEN
        IF i + 1 > Len(tokens) THEN None
        ELSE ScanTokens(tokens, i + 2,
                 [result EXCEPT !.redirect_stdout = Some(tokens[i + 1])])
    ELSE IF tokens[i] = "2>" THEN
        IF i + 1 > Len(tokens) THEN None
        ELSE ScanTokens(tokens, i + 2,
                 [result EXCEPT !.redirect_stderr = Some(tokens[i + 1])])
    ELSE IF tokens[i] \in {">>", "1>>"} THEN
        IF i + 1 > Len(tokens) THEN None
        ELSE ScanTokens(tokens, i + 2,
                 [result EXCEPT !.redirect_stdout = Some(tokens[i + 1]),
                                !.append_stdout = TRUE])
    ELSE IF tokens[i] = "2>>" THEN
        IF i + 1 > Len(tokens) THEN None
        ELSE ScanTokens(tokens, i + 2,
                 [result EXCEPT !.redirect_stderr = Some(tokens[i + 1]),
                                !.append_stderr = TRUE])
    ELSE ScanTokens(tokens, i + 1,
             [result EXCEPT !.args = Append(@, tokens[i])])

\* a parser that drops a trailing operator instead of rejecting the line
handle_tokens_lenient(tokens) ==
    IF tokens = <<>> THEN None
    ELSE IF ~IsSome(ScanTokens(tokens, 2, NewTokenizerResult(tokens[1])))
    THEN ScanTokens(SubSeq(tokens, 1, Len(tokens) - 1), 2, NewTokenizerResult(tokens[1]))
    ELSE ScanTokens(tokens, 2, NewTokenizerResult(tokens[1]))

\* a parser whose scan starts at the command word
handle_tokens_from_command(tokens) ==
    IF tokens = <<>> THEN None
    ELSE ScanTokens(tokens, 1, NewTokenizerResult(tokens[1]))

handle_tokens(tokens) ==
    IF tokens = <<>> THEN None
    ELSE ScanTokens(tokens, 2, NewTokenizerResult(tokens[1]))

SyntaxErrorMsg == "syntax error: missing file name after redirection operator\n"

(***************************************************************************)
(* Command resolver                                                        *)
(***************************************************************************)
BuiltinNames == {"exit", "echo", "type", "pwd", "cd"}

BuiltinCommand_from_str(command) ==
    IF command \in BuiltinNames THEN Some(command) ELSE None

\* pathsearch::find_executable_in_path: first PATH directory that holds an
\* executable regular file of that name
RECURSIVE FindFrom(_, _)
FindFrom(command, i) ==
    IF i > Len(PathDirs) THEN None
    ELSE IF command \in ExecutablesIn(PathDirs[i])
         THEN Some(PathDirs[i] \o "/" \o command)
         ELSE FindFrom(command, i + 1)

\* a search that lets a later PATH directory win
RECURSIVE FindBackFrom(_, _)
FindBackFrom(command, i) ==
    IF i < 1 THEN None
    ELSE IF command \in ExecutablesIn(PathDirs[i])
         THEN Some(PathDirs[i] \o "/" \o command)
         ELSE FindBackFrom(command, i - 1)

find_executable_in_path_last(command) == FindBackFrom(command, Len(PathDirs))

find_executable_in_path(command) == FindFrom(command, 1)

\* a resolver that hands every unknown word to the executor
search_command_fallback(command) ==
    IF IsSome(BuiltinCommand_from_str(command))
    THEN [kind |-> "Builtin", builtin |-> command, path |-> ""]
    ELSE IF IsSome(find_executable_in_path(command))
    THEN [kind |-> "Executable", builtin |-> "",
          path |-> Unwrap(find_executable_in_path(command))]
    ELSE [kind |-> "Executable", builtin |-> "", path |-> command]

search_command(command) ==
    IF IsSome(BuiltinCommand_from_str(command))
    THEN [kind |-> "Builtin", builtin |-> command, path |-> ""]
    ELSE IF IsSome(find_executable_in_path(command))
    THEN [kind |-> "Executable", builtin |-> "",
          path |-> Unwrap(find_executable_in_path(command))]
    ELSE [kind |-> "None", builtin |-> "", path |-> ""]

(***************************************************************************)
(* Builtins.  Each returns the OutputLines it adds, the working directory  *)
(* it leaves and, for exit, the code it terminates the process with.       *)
(***************************************************************************)
OutputLine(line, is_err) == [line |-> line, is_err |-> is_err]

BuiltinResult(output, dir, code) == [output |-> output, cwd |-> dir, exit |-> code]

I32Max == 2147483647

\* the characters of the words that can be an argument of exit
Chars(word) ==
    CASE word = "42" -> <<"4", "2">>
      [] word = "-7" -> <<"-", "7">>
      [] word = "2147483648" -> <<"2", "1", "4", "7", "4", "8", "3", "6", "4", "8">>
      [] word = "hi" -> <<"h", "i">>
      [] word = "/tmp" -> <<"/", "t", "m", "p">>
      [] word = "/nx" -> <<"/", "n", "x">>
      [] word = "~" -> <<"~">>
      [] word = "ls" -> <<"l", "s">>
      [] word = "echo" -> <<"e", "c", "h", "o">>

DigitValue(c) ==
    CASE c = "0" -> 0 [] c = "1" -> 1 [] c = "2" -> 2 [] c = "3" -> 3
      [] c = "4" -> 4 [] c = "5" -> 5 [] c = "6" -> 6 [] c = "7" -> 7
      [] c = "8" -> 8 [] c = "9" -> 9 [] OTHER -> -1

\* the digit loop of str::parse::<i32>: checked multiply by 10, then checked
\* add (positive) or checked subtract (negative) of the digit
RECURSIVE ParseDigits(_, _, _, _)
ParseDigits(chars, i, acc, negative) ==
    IF i > Len(chars) THEN Some(acc)
    ELSE LET d == DigitValue(chars[i]) IN
         IF d < 0 THEN None
         ELSE IF ~negative THEN
              IF acc > (I32Max - d) \div 10 THEN None
              ELSE ParseDigits(chars, i + 1, acc * 10 + d, negative)
         ELSE IF (-acc) > (IF d = 0 THEN I32Max ELSE I32Max - d + 1) \div 10 THEN None
              ELSE ParseDigits(chars, i + 1, acc * 10 - d, negative)

parse_i32(word) ==
    LET chars == Chars(word) IN
    IF chars = <<>> THEN None
    ELSE IF chars[1] \in {"+", "-"} THEN
         IF Len(chars) = 1 THEN None
         ELSE ParseDigits(chars, 2, 0, chars[1] = "-")
    ELSE ParseDigits(chars, 1, 0, FALSE)

unwrap_or(o, default) == IF IsSome(o) THEN Unwrap(o) ELSE default

\* an exit that takes an unparsable argument as a failure code
exit_fn_strict(args, dir) ==
    IF Len(args) > 1
    THEN BuiltinResult(<<OutputLine("exit: too many arguments", TRUE)>>, dir, None)
    ELSE BuiltinResult(<<>>, dir,
             Some(IF args # <<>> THEN unwrap_or(parse_i32(args[1]), 1) ELSE 0))

exit_fn(args, dir) ==
    IF Len(args) > 1
    THEN BuiltinResult(<<OutputLine("exit: too many arguments", TRUE)>>, dir, None)
    ELSE BuiltinResult(<<>>, dir,
             Some(IF args # <<>> THEN unwrap_or(parse_i32(args[1]), 0) ELSE 0))

\* an echo that emits its arguments one per line
echo_fn_per_argument(args, dir) ==
    BuiltinResult([i \in 1..Len(args) |-> OutputLine(args[i], FALSE)], dir, None)

echo_fn(args, dir) ==
    BuiltinResult(<<OutputLine(Join(args), FALSE)>>, dir, None)

\* a type that looks on PATH only
type_fn_path_only(args, dir) ==
    IF args = <<>>
    THEN BuiltinResult(<<OutputLine("type: missing argument", TRUE)>>, dir, None)
    ELSE IF Len(args) > 1
    THEN BuiltinResult(<<OutputLine("type: too many arguments", TRUE)>>, dir, None)
    ELSE IF IsSome(find_executable_in_path(args[1]))
    THEN BuiltinResult(<<OutputLine(args[1] \o " is "
                            \o Unwrap(find_executable_in_path(args[1])), FALSE)>>,
                       dir, None)
    ELSE BuiltinResult(<<OutputLine(args[1] \o ": not found", TRUE)>>, dir, None)

type_fn(args, dir) ==
    IF args = <<>>
    THEN BuiltinResult(<<OutputLine("type: missing argument", TRUE)>>, dir, None)
    ELSE IF Len(args) > 1
    THEN BuiltinResult(<<OutputLine("type: too many arguments", TRUE)>>, dir, None)
    ELSE LET command == search_command(args[1]) IN
         IF command.kind = "Builtin"
         THEN BuiltinResult(<<OutputLine(args[1] \o " is a shell builtin", FALSE)>>, dir, None)
         ELSE IF command.kind = "Executable"
         THEN BuiltinResult(<<OutputLine(args[1] \o " is " \o command.path, FALSE)>>, dir, None)
         ELSE BuiltinResult(<<OutputLine(args[1] \o ": not found", TRUE)>>, dir, None)

\* std::env::current_dir fails when the working directory no longer exists
current_dir(dir) == IF dir \in Directories THEN Some(dir) ELSE None

\* a pwd that reports the directory the shell was started in
pwd_fn_startup(args, dir) ==
    IF args # <<>>
    THEN BuiltinResult(<<OutputLine("pwd: too many arguments", TRUE)>>, dir, None)
    ELSE BuiltinResult(<<OutputLine("/", FALSE)>>, dir, None)

pwd_fn(args, dir) ==
    IF args # <<>>
    THEN BuiltinResult(<<OutputLine("pwd: too many arguments", TRUE)>>, dir, None)
    ELSE IF ~IsSome(current_dir(dir))
    THEN BuiltinResult(<<OutputLine("pwd: unable to get current directory", TRUE)>>, dir, None)
    ELSE BuiltinResult(<<OutputLine(Unwrap(current_dir(dir)), FALSE)>>, dir, None)

\* std::env::set_current_dir: Some(new working directory), or None on failure
\* a change of directory that is recorded without asking the file system
set_current_dir_unchecked(dir, target) == Some(target)

set_current_dir(dir, target) ==
    IF target \in Directories THEN Some(target) ELSE None

CdTo(dir, target) ==
    IF IsSome(set_current_dir(dir, target))
    THEN BuiltinResult(<<>>, Unwrap(set_current_dir(dir, target)), None)
    ELSE BuiltinResult(
             <<OutputLine("cd: " \o target \o ": No such file or directory", TRUE)>>,
             dir, None)

\* a cd that takes `~` as the name of a directory
cd_fn_literal_tilde(args, dir, home_var) ==
    IF args = <<>> THEN
        IF IsSome(home_var) THEN CdTo(dir, Unwrap(home_var))
        ELSE BuiltinResult(<<OutputLine("cd: unable to get home directory", TRUE)>>, dir, None)
    ELSE IF Len(args) > 1
    THEN BuiltinResult(<<OutputLine("cd: too many arguments", TRUE)>>, dir, None)
    ELSE CdTo(dir, args[1])

cd_fn(args, dir, home_var) ==
    IF args = <<>> THEN
        IF IsSome(home_var) THEN CdTo(dir, Unwrap(home_var))
        ELSE BuiltinResult(<<OutputLine("cd: unable to get home directory", TRUE)>>, dir, None)
    ELSE IF Len(args) > 1
    THEN BuiltinResult(<<OutputLine("cd: too many arguments", TRUE)>>, dir, None)
    ELSE LET new_dir == IF args[1] = "~" THEN home_var ELSE Some(args[1]) IN
         IF ~IsSome(new_dir)
         THEN BuiltinResult(<<OutputLine("cd: unable to get home directory", TRUE)>>, dir, None)
         ELSE CdTo(dir, Unwrap(new_dir))

\* BuiltinCommand::to_impl followed by the call
RunBuiltin(builtin, args, dir, home_var) ==
    CASE builtin = "exit" -> exit_fn(args, dir)
      [] builtin = "echo" -> echo_fn(args, dir)
      [] builtin = "type" -> type_fn(args, dir)
      [] builtin = "pwd" -> pwd_fn(args, dir)
      [] builtin = "cd" -> cd_fn(args, dir, home_var)

(***************************************************************************)
(* Output router: opening the redirect targets, writing to the sinks       *)
(***************************************************************************)
NoFile == [exists |-> FALSE, data |-> <<>>]

\* OpenOptions::open with write(true).create(true) and append(true) or
\* truncate(true): fails on a directory, creates a missing file, truncates
\* unless append
\* an open that never truncates
open_no_truncate(fs, path, append) ==
    IF path \in FilePaths
    THEN [is_err |-> FALSE,
          fs |-> [fs EXCEPT ![path] = [exists |-> TRUE, data |-> @.data]]]
    ELSE [is_err |-> TRUE, fs |-> fs]

open(fs, path, append) ==
    IF path \in FilePaths
    THEN [is_err |-> FALSE,
          fs |-> [fs EXCEPT ![path] =
                     [exists |-> TRUE, data |-> IF append THEN @.data ELSE <<>>]]]
    ELSE [is_err |-> TRUE, fs |-> fs]

OpenErrorText == "Is a directory (os error 21)"

\* open of an optional redirect target (Option::map over the path)
OpenTarget(fs, target, append) ==
    IF IsSome(target) THEN open(fs, Unwrap(target), append)
    ELSE [is_err |-> FALSE, fs |-> fs]

\* a write of one chunk through a handle: at the end of the file in append
\* mode, else at the handle's own offset (counted in chunks)
WriteAt(data, offset, append, chunk) ==
    IF append THEN Append(data, chunk)
    ELSE SubSeq(data, 1, offset) \o <<chunk>> \o SubSeq(data, offset + 2, Len(data))

\* the state of the two writers: file system, terminal streams, offsets
Writers(fs, out, err) ==
    [fs |-> fs, out |-> out, err |-> err, out_off |-> 0, err_off |-> 0]

\* writeln!(writer, "{}", line) on out_writer or err_writer
\* a router that sends every line to the stdout sink
Writeln_stdout_only(w, t, line) ==
    LET chunk == line.line \o "\n" IN
    IF IsSome(t.redirect_stdout)
    THEN [w EXCEPT !.fs[Unwrap(t.redirect_stdout)].data =
                       WriteAt(@, w.out_off, t.append_stdout, chunk),
                   !.out_off = @ + 1]
    ELSE [w EXCEPT !.out = Append(@, chunk)]

Writeln(w, t, line) ==
    LET chunk == line.line \o "\n" IN
    IF line.is_err THEN
        IF IsSome(t.redirect_stderr)
        THEN [w EXCEPT !.fs[Unwrap(t.redirect_stderr)].data =
                           WriteAt(@, w.err_off, t.append_stderr, chunk),
                       !.err_off = @ + 1]
        ELSE [w EXCEPT !.err = Append(@, chunk)]
    ELSE
        IF IsSome(t.redirect_stdout)
        THEN [w EXCEPT !.fs[Unwrap(t.redirect_stdout)].data =
                           WriteAt(@, w.out_off, t.append_stdout, chunk),
                       !.out_off = @ + 1]
        ELSE [w EXCEPT !.out = Append(@, chunk)]

\* for line in output.get() { ... }
RECURSIVE RouteFrom(_, _, _, _)
RouteFrom(w, t, output, i) ==
    IF i > Len(output) THEN w
    ELSE RouteFrom(Writeln(w, t, output[i]), t, output, i + 1)

Route(w, t, output) == RouteFrom(w, t, output, 1)

FilesBounded(fs) == \A p \in FilePaths : Len(fs[p].data) <= MaxFileLines

(***************************************************************************)
(* The child process and the shell's handles                               *)
(***************************************************************************)
\* a child process: its command and the stdio it was spawned with
Child(t) ==
    [command |-> t.command,
     stdout |-> t.redirect_stdout, append_stdout |-> t.append_stdout,
     stderr |-> t.redirect_stderr, append_stderr |-> t.append_stderr]

\* the handles the loop body holds for a parsed line
OpenedHandles(t) ==
    (IF IsSome(t.redirect_stdout) THEN {"out_file"} ELSE {})
        \cup (IF IsSome(t.redirect_stderr) THEN {"err_file"} ELSE {})

\* the handles wired as the child's stdio
ChildHandles(t) ==
    (IF IsSome(t.redirect_stdout) THEN {"child_stdout"} ELSE {})
        \cup (IF IsSome(t.redirect_stderr) THEN {"child_stderr"} ELSE {})

\* history: the directory a cd line asks for, by the shape of the line
CdTarget(t, home_var) ==
    IF t.command # "cd" \/ Len(t.args) > 1 THEN None
    ELSE IF t.args = <<>> \/ t.args = <<"~">> THEN home_var
    ELSE Some(t.args[1])

EnteredBy(t, home_var) ==
    IF IsSome(CdTarget(t, home_var)) /\ Unwrap(CdTarget(t, home_var)) \in Directories
    THEN CdTarget(t, home_var) ELSE None

(***************************************************************************)
(* The REPL loop of main                                                   *)
(***************************************************************************)
Init ==
    /\ pc = "Prompt"
    /\ cwd = "/"
    /\ home \in HomeValues
    /\ files = [p \in FilePaths |-> NoFile]
    /\ eof = FALSE
    /\ input = <<>>
    /\ tokenized = None
    /\ emitted = <<>>
    /\ term_out = <<>>
    /\ term_err = <<>>
    /\ handles = {}
    /\ children = {}
    /\ exit_code = None
    /\ last_cd = "/"

\* print!("$ "), flush; the locals of the previous iteration are gone
PrintPrompt ==
    /\ pc = "Prompt"
    /\ pc' = "ReadLine"
    /\ input' = <<>>
    /\ tokenized' = None
    /\ emitted' = <<>>
    /\ term_out' = <<"$ ">>
    /\ term_err' = <<>>
    /\ UNCHANGED <<cwd, home, files, eof, handles, children, exit_code, last_cd>>

\* `continue`: back to the top of the loop
Continue(line, parsed, report) ==
    /\ pc' = "Prompt"
    /\ input' = line
    /\ tokenized' = parsed
    /\ term_err' = term_err \o report
    /\ UNCHANGED <<cwd, home, files, eof, emitted, term_out, handles, children,
                   exit_code, last_cd>>

\* read_line returns Err
ReadErr ==
    /\ pc = "ReadLine"
    /\ ~eof
    /\ Continue(<<>>, None, <<"Error reading input: read failed\n">>)

\* read_line returns Ok(0): the input stays empty, so tokens is empty
ReadEof ==
    /\ pc = "ReadLine"
    /\ pc' = "Prompt"
    /\ eof' = TRUE
    /\ UNCHANGED <<cwd, home, files, input, tokenized, emitted, term_out,
                   term_err, handles, children, exit_code, last_cd>>

\* std::process::exit(code)
ProcessExit(line, t, fs, code, report) ==
    /\ pc' = "Exited"
    /\ exit_code' = Some(code)
    /\ input' = line
    /\ tokenized' = Some(t)
    /\ files' = fs
    /\ term_err' = term_err \o report
    /\ handles' = {}
    /\ UNCHANGED <<cwd, home, eof, emitted, term_out, children, last_cd>>

\* the Builtin arm of the match, and the end of the loop body
ExecuteBuiltin(line, t, fs, builtin) ==
    LET r == RunBuiltin(builtin, t.args, cwd, home)
        w == Route(Writers(fs, term_out, term_err), t, r.output)
    IN IF IsSome(r.exit)
       THEN ProcessExit(line, t, fs, Unwrap(r.exit), <<>>)
       ELSE /\ FilesBounded(w.fs)
            /\ pc' = "Prompt"
            /\ input' = line
            /\ tokenized' = Some(t)
            /\ emitted' = r.output
            /\ cwd' = r.cwd
            /\ last_cd' = IF IsSome(EnteredBy(t, home))
                          THEN Unwrap(EnteredBy(t, home)) ELSE last_cd
            /\ files' = w.fs
            /\ term_out' = w.out
            /\ term_err' = w.err
            /\ handles' = {}
            /\ UNCHANGED <<home, eof, children, exit_code>>

\* a spawn that does not wait for the child
SpawnInBackground(t) ==
    /\ pc' = "Prompt"
    /\ children' = children \cup {Child(t)}
    /\ handles' = {}

\* spawn() succeeded: the loop blocks in child.wait()
SpawnAndWait(t) ==
    /\ pc' = "Wait"
    /\ children' = children \cup {Child(t)}
    /\ handles' = OpenedHandles(t) \cup ChildHandles(t)

\* the Executable arm: the targets are opened again for the child's stdio,
\* then spawn and wait
ExecuteExternal(line, t, fs) ==
    LET out == OpenTarget(fs, t.redirect_stdout, t.append_stdout)
        err == OpenTarget(out.fs, t.redirect_stderr, t.append_stderr)
    IN IF out.is_err
       THEN ProcessExit(line, t, fs, 1,
                <<"Error opening output file " \o Unwrap(t.redirect_stdout)
                    \o ": " \o OpenErrorText \o "\n">>)
       ELSE IF err.is_err
       THEN ProcessExit(line, t, out.fs, 1,
                <<"Error opening error file " \o Unwrap(t.redirect_stderr)
                    \o ": " \o OpenErrorText \o "\n">>)
       ELSE \E spawned \in BOOLEAN :
            /\ input' = line
            /\ tokenized' = Some(t)
            /\ files' = err.fs
            /\ IF spawned
               THEN /\ SpawnAndWait(t)
                    /\ UNCHANGED term_err
               ELSE /\ pc' = "Prompt"
                    /\ term_err' = Append(term_err, t.command \o ": command not found\n")
                    /\ handles' = {}
                    /\ UNCHANGED children
            /\ UNCHANGED <<cwd, home, eof, emitted, term_out, exit_code, last_cd>>

\* a None arm that keeps the redirect handles of the line
ExecuteNotFound_keeps_handles(line, t, fs) ==
    /\ pc' = "Prompt"
    /\ input' = line
    /\ tokenized' = Some(t)
    /\ files' = fs
    /\ term_err' = Append(term_err, t.command \o ": command not found\n")
    /\ handles' = OpenedHandles(t)
    /\ UNCHANGED <<cwd, home, eof, emitted, term_out, children, exit_code, last_cd>>

\* a None arm reached before the redirect targets were opened
ExecuteNotFound_before_open(line, t, fs) ==
    /\ pc' = "Prompt"
    /\ input' = line
    /\ tokenized' = Some(t)
    /\ files' = files
    /\ term_err' = Append(term_err, t.command \o ": command not found\n")
    /\ handles' = {}
    /\ UNCHANGED <<cwd, home, eof, emitted, term_out, children, exit_code, last_cd>>

\* the None arm
ExecuteNotFound(line, t, fs) ==
    /\ pc' = "Prompt"
    /\ input' = line
    /\ tokenized' = Some(t)
    /\ files' = fs
    /\ term_err' = Append(term_err, t.command \o ": command not found\n")
    /\ handles' = {}
    /\ UNCHANGED <<cwd, home, eof, emitted, term_out, children, exit_code, last_cd>>

\* lines 287-383: open the redirect targets, resolve, dispatch
Execute(line, t) ==
    LET out_file == OpenTarget(files, t.redirect_stdout, t.append_stdout)
        err_file == OpenTarget(out_file.fs, t.redirect_stderr, t.append_stderr)
        command == search_command(t.command)
    IN IF out_file.is_err
       THEN ProcessExit(line, t, files, 1,
                <<"Error opening output file " \o Unwrap(t.redirect_stdout)
                    \o ": " \o OpenErrorText \o "\n">>)
       ELSE IF err_file.is_err
       THEN ProcessExit(line, t, out_file.fs, 1,
                <<"Error opening error file " \o Unwrap(t.redirect_stderr)
                    \o ": " \o OpenErrorText \o "\n">>)
       ELSE IF command.kind = "Builtin"
       THEN ExecuteBuiltin(line, t, err_file.fs, command.builtin)
       ELSE IF command.kind = "Executable"
       THEN ExecuteExternal(line, t, err_file.fs)
       ELSE ExecuteNotFound(line, t, err_file.fs)

\* read_line returns a line: one pass through the loop body, up to the next
\* prompt, the wait for the child, or the end of the process
ReadLine(line) ==
    /\ pc = "ReadLine"
    /\ ~eof
    /\ LET split == shell_words_split(line)
           parsed == handle_tokens(split.tokens)
       IN IF split.is_err
          THEN Continue(line, None, <<"Error parsing input: missing closing quote\n">>)
          ELSE IF split.tokens = <<>>
          THEN Continue(line, None, <<>>)
          ELSE IF ~IsSome(parsed)
          THEN Continue(line, None, <<SyntaxErrorMsg>>)
          ELSE Execute(line, Unwrap(parsed))

\* the child runs, writes at most one line to its stdout or stderr, and
\* terminates; child.wait() returns and the loop body ends
ChildWrites == {"nothing", "stdout", "stderr"}

ChildExit(child, wrote) ==
    /\ pc = "Wait"
    /\ child \in children
    /\ LET target == IF wrote = "stdout" THEN child.stdout ELSE child.stderr
           append == IF wrote = "stdout" THEN child.append_stdout ELSE child.append_stderr
       IN IF wrote = "nothing"
          THEN UNCHANGED <<files, term_out, term_err>>
          ELSE IF IsSome(target)
          THEN /\ files' = [files EXCEPT ![Unwrap(target)].data =
                                WriteAt(@, 0, append, ChildLine)]
               /\ FilesBounded(files')
               /\ UNCHANGED <<term_out, term_err>>
          ELSE IF wrote = "stdout"
          THEN /\ term_out' = Append(term_out, ChildLine)
               /\ UNCHANGED <<files, term_err>>
          ELSE /\ term_err' = Append(term_err, ChildLine)
               /\ UNCHANGED <<files, term_out>>
    /\ pc' = "Prompt"
    /\ children' = children \ {child}
    /\ handles' = {}
    /\ UNCHANGED <<cwd, home, eof, input, tokenized, emitted, exit_code, last_cd>>

Next ==
    \/ PrintPrompt
    \/ ReadErr
    \/ ReadEof
    \/ \E line \in Lines : ReadLine(line)
    \/ \E child \in children, wrote \in ChildWrites : ChildExit(child, wrote)

Spec == Init /\ [][Next]_vars

\* the shell process keeps running: the prompt is printed, and a read on
\* standard input returns (at end-of-input it returns at once)
ReadReturns == ReadErr \/ ReadEof \/ \E line \in Lines : ReadLine(line)

LiveSpec == Spec /\ WF_vars(PrintPrompt) /\ WF_vars(ReadReturns)

TypeOK ==
    /\ pc \in {"Prompt", "ReadLine", "Wait", "Exited"}
    /\ cwd \in Directories
    /\ FilesBounded(files)

(***************************************************************************)
(* The redirection parser on its own: handle_tokens applied to every token *)
(* sequence of at most MaxTokens words                                     *)
(***************************************************************************)
ParseWords == RedirOps \cup {"echo", "hi"}

ParseInit ==
    /\ pc = "Parse"
    /\ input \in SeqsUpTo(ParseWords, MaxTokens)
    /\ cwd = "/"
    /\ home = None
    /\ files = [p \in FilePaths |-> NoFile]
    /\ eof = FALSE
    /\ tokenized = None
    /\ emitted = <<>>
    /\ term_out = <<>>
    /\ term_err = <<>>
    /\ handles = {}
    /\ children = {}
    /\ exit_code = None
    /\ last_cd = "/"

\* let tokenized = handle_tokens(tokens), with its eprintln
HandleTokens ==
    /\ pc = "Parse"
    /\ pc' = "Parsed"
    /\ tokenized' = handle_tokens(input)
    /\ term_err' = IF input # <<>> /\ ~IsSome(handle_tokens(input))
                   THEN <<SyntaxErrorMsg>> ELSE <<>>
    /\ UNCHANGED <<cwd, home, files, eof, input, emitted, term_out, handles,
                   children, exit_code, last_cd>>

ParseNext == HandleTokens

ParseSpec == ParseInit /\ [][ParseNext]_vars

(***************************************************************************)
(* Properties                                                              *)
(***************************************************************************)
\* the parsed line of the iteration, when there is one
Parsed == Unwrap(tokenized)

\* the indices of the tokens in operator position: scanning from the second
\* token, an operator is followed by its path, which is skipped
RECURSIVE OperatorPositions(_, _)
OperatorPositions(tokens, i) ==
    IF i > Len(tokens) THEN {}
    ELSE IF tokens[i] \in RedirOps
         THEN {i} \cup OperatorPositions(tokens, i + 2)
         ELSE OperatorPositions(tokens, i + 1)

StdoutOps == {">", "1>", ">>", "1>>"}
StderrOps == {"2>", "2>>"}
AppendOps == {">>", "1>>", "2>>"}

Max(S) == CHOOSE m \in S : \A n \in S : n <= m

\* the redirect targets of a parsed line can all be opened
TargetsOpen(t) ==
    /\ IsSome(t.redirect_stdout) => Unwrap(t.redirect_stdout) \in FilePaths
    /\ IsSome(t.redirect_stderr) => Unwrap(t.redirect_stderr) \in FilePaths

\* C1: when opening a redirect target fails the command is aborted but the
\* shell keeps running; the process is only ever terminated by the exit
\* builtin called with at most one argument.
C1_OnlyExitTerminates ==
    /\ pc = "Exited" =>
           /\ IsSome(tokenized)
           /\ Parsed.command = "exit"
           /\ Len(Parsed.args) <= 1
    /\ (IsSome(tokenized) /\ ~TargetsOpen(Parsed)) => pc = "Prompt"

\* C2: for an accepted token sequence, the stdout (stderr) path and append
\* flag are those of the last stdout (stderr) operator.
LastOperator(tokens, ops) ==
    Max({i \in OperatorPositions(tokens, 2) : tokens[i] \in ops})

HasOperator(tokens, ops) ==
    \E i \in OperatorPositions(tokens, 2) : tokens[i] \in ops

C2_LastRedirectionWins ==
    (pc = "Parsed" /\ IsSome(tokenized)) =>
        /\ HasOperator(input, StdoutOps) =>
               /\ Parsed.redirect_stdout = Some(input[LastOperator(input, StdoutOps) + 1])
               /\ Parsed.append_stdout = (input[LastOperator(input, StdoutOps)] \in AppendOps)
        /\ HasOperator(input, StderrOps) =>
               /\ Parsed.redirect_stderr = Some(input[LastOperator(input, StderrOps) + 1])
               /\ Parsed.append_stderr = (input[LastOperator(input, StderrOps)] \in AppendOps)

\* C3: once a read has returned end-of-input the loop ends: the shell does
\* not go on prompting and reading on the exhausted input.
C3_EofEndsLoop == eof ~> (pc = "Exited")

\* a line the REPL rejects: the tokenizer fails on it, or its last token is
\* a redirection operator in operator position
Malformed(line) ==
    \/ \E i \in 1..Len(line) : line[i] = Quote
    \/ line # <<>> /\ Len(line) \in OperatorPositions(line, 2)

\* C4: a malformed line is reported and has no side effect: nothing runs,
\* no child is spawned, no file is opened, created or truncated, and the
\* working directory is unchanged; the REPL is back at Prompt.
C4_MalformedLineNoEffect ==
    [][(pc = "ReadLine" /\ Malformed(input')) =>
           /\ pc' = "Prompt"
           /\ Len(term_err') = Len(term_err) + 1
           /\ term_out' = term_out
           /\ emitted' = <<>>
           /\ files' = files
           /\ cwd' = cwd
           /\ children' = children
           /\ handles' = handles
           /\ exit_code' = exit_code]_vars

C4_Witness ==
    /\ pc = "Prompt"
    /\ input = <<"echo", "hi", ">", "/out", "2>">>
    /\ term_err = <<SyntaxErrorMsg>>
    /\ files["/out"].data = <<"hi\n">>

\* C5: `echo hi > /out` leaves /out with exactly the line hi whatever it
\* held before (so a second run gives the same file); `echo hi >> /out` adds
\* one line hi after what the file held; a missing target is created.
C5_TruncateAndAppend ==
    [][(pc = "ReadLine" /\ pc' = "Prompt") =>
           /\ input' \in {<<"echo", "hi", ">", "/out">>, <<"echo", "hi", "1>", "/out">>} =>
                  files'["/out"] = [exists |-> TRUE, data |-> <<"hi\n">>]
           /\ input' \in {<<"echo", "hi", ">>", "/out">>, <<"echo", "hi", "1>>", "/out">>} =>
                  files'["/out"] =
                      [exists |-> TRUE, data |-> Append(files["/out"].data, "hi\n")]]_vars

C5_Witness ==
    /\ pc = "Prompt"
    /\ input = <<"echo", "hi", ">>", "/out">>
    /\ files["/out"] = [exists |-> TRUE, data |-> <<"hi\n", "hi\n">>]

\* C6: a cd with one argument whose target cannot be entered leaves the
\* working directory as it was and emits exactly one line, error-tagged,
\* `cd: <target>: No such file or directory`.
C6_FailedCdKeepsDirectory ==
    [][(/\ pc = "ReadLine"
        /\ IsSome(tokenized')
        /\ TargetsOpen(Parsed')
        /\ Parsed'.command = "cd"
        /\ Len(Parsed'.args) = 1
        /\ IsSome(CdTarget(Parsed', home))
        /\ Unwrap(CdTarget(Parsed', home)) \notin Directories) =>
           /\ pc' = "Prompt"
           /\ cwd' = cwd
           /\ emitted' = <<OutputLine("cd: " \o Unwrap(CdTarget(Parsed', home))
                                        \o ": No such file or directory", TRUE)>>]_vars

C6_Witness ==
    /\ pc = "Prompt"
    /\ IsSome(tokenized)
    /\ Parsed.command = "cd"
    /\ Parsed.args = <<"/nx">>
    /\ cwd = "/tmp"
    /\ emitted = <<OutputLine("cd: /nx: No such file or directory", TRUE)>>

\* C7: the working directory is changed only by a successful cd, to the
\* target of that cd, and persists across iterations: pwd with no argument
\* emits, as one non-error line, the target of the most recent successful
\* cd (the initial directory if there was none).
C7_WorkingDirectoryPersists ==
    [][/\ cwd' # cwd =>
              /\ pc = "ReadLine"
              /\ IsSome(tokenized')
              /\ EnteredBy(Parsed', home) = Some(cwd')
       /\ (/\ pc = "ReadLine"
           /\ IsSome(tokenized')
           /\ TargetsOpen(Parsed')
           /\ Parsed'.command = "pwd"
           /\ Parsed'.args = <<>>) =>
              /\ pc' = "Prompt"
              /\ emitted' = <<OutputLine(last_cd', FALSE)>>]_vars

C7_Witness ==
    /\ pc = "Prompt"
    /\ IsSome(tokenized)
    /\ Parsed.command = "pwd"
    /\ Parsed.args = <<>>
    /\ last_cd = "/tmp"
    /\ emitted = <<OutputLine("/tmp", FALSE)>>

\* the exit code the words of the input stand for: 0 for a word that is
\* not a 32-bit signed integer
ExpectedExitCode(word) ==
    IF word = "42" THEN 42 ELSE IF word = "-7" THEN -7 ELSE 0

\* C8: exit with no argument terminates the process with code 0; with one
\* argument with that argument as a 32-bit signed integer, or 0 when it does
\* not parse; with two or more arguments the process keeps running, emits
\* the one error line `exit: too many arguments` and is back at Prompt.
C8_ExitByArgumentCount ==
    [][(/\ pc = "ReadLine"
        /\ IsSome(tokenized')
        /\ TargetsOpen(Parsed')
        /\ Parsed'.command = "exit") =>
           /\ Len(Parsed'.args) = 0 =>
                  pc' = "Exited" /\ exit_code' = Some(0)
           /\ Len(Parsed'.args) = 1 =>
                  pc' = "Exited" /\ exit_code' = Some(ExpectedExitCode(Parsed'.args[1]))
           /\ Len(Parsed'.args) >= 2 =>
                  /\ pc' = "Prompt"
                  /\ exit_code' = None
                  /\ emitted' = <<OutputLine("exit: too many arguments", TRUE)>>]_vars

C8_Witness ==
    /\ pc = "Exited"
    /\ IsSome(tokenized)
    /\ Parsed.command = "exit"
    /\ Parsed.args = <<"2147483648">>
    /\ exit_code = Some(0)

\* a word that is no builtin name and no executable of a PATH directory
NotResolvable(word) ==
    /\ word \notin {"exit", "echo", "type", "pwd", "cd"}
    /\ \A i \in 1..Len(PathDirs) : word \notin ExecutablesIn(PathDirs[i])

\* C9: a command word that is neither a builtin nor an executable on PATH
\* resolves to not-found; the line reports `<word>: command not found`, runs
\* no builtin, spawns no child, keeps the working directory, and the REPL is
\* back at Prompt.  A failed spawn of a resolved executable is reported with
\* the same wording and the loop continues.
C9_CommandNotFound ==
    [][(/\ pc = "ReadLine"
        /\ IsSome(tokenized')
        /\ TargetsOpen(Parsed')) =>
           /\ NotResolvable(Parsed'.command) =>
                  /\ search_command(Parsed'.command).kind = "None"
                  /\ pc' = "Prompt"
                  /\ term_err' = Append(term_err, Parsed'.command \o ": command not found\n")
                  /\ term_out' = term_out
                  /\ emitted' = <<>>
                  /\ children' = {}
                  /\ cwd' = cwd
                  /\ exit_code' = None
           /\ (/\ search_command(Parsed'.command).kind = "Executable"
               /\ children' = {}) =>
                  /\ pc' = "Prompt"
                  /\ term_err' = Append(term_err, Parsed'.command \o ": command not found\n")
                  /\ cwd' = cwd
                  /\ exit_code' = None]_vars

C9_Witness ==
    /\ pc = "Prompt"
    /\ IsSome(tokenized)
    /\ Parsed.command = "nope"
    /\ term_err = <<"nope: command not found\n">>
    /\ children = {}
    /\ exit_code = None

\* C10: one command at a time: at most one child is alive, and none while
\* the REPL is at Prompt or ReadLine: as long as a child is alive main is
\* in its wait, where no prompt is printed and no line is read.
C10_BlocksOnChild ==
    /\ Cardinality(children) <= 1
    /\ pc \in {"Prompt", "ReadLine"} => children = {}
    /\ children # {} => pc = "Wait"

C10_Witness ==
    /\ pc = "Wait"
    /\ Cardinality(children) = 1
    /\ \E c \in children : c.command = "ls" /\ c.stdout = Some("/out")

\* the resolution the fixed order prescribes: a builtin name is a builtin
\* whatever PATH holds; otherwise the executable of the first PATH directory
\* that has one; otherwise not found
Min(S) == CHOOSE m \in S : \A n \in S : m <= n

DirsHolding(word) == {i \in 1..Len(PathDirs) : word \in ExecutablesIn(PathDirs[i])}

ExpectedResolution(word) ==
    IF word \in {"exit", "echo", "type", "pwd", "cd"}
    THEN [kind |-> "Builtin", builtin |-> word, path |-> ""]
    ELSE IF DirsHolding(word) # {}
    THEN [kind |-> "Executable", builtin |-> "",
          path |-> PathDirs[Min(DirsHolding(word))] \o "/" \o word]
    ELSE [kind |-> "None", builtin |-> "", path |-> ""]

\* the words of the line the resolver is applied to: the command word, and
\* the argument of a type
ResolvedWords ==
    IF ~IsSome(tokenized) THEN {}
    ELSE {Parsed.command} \cup
         (IF Parsed.command = "type" THEN {Parsed.args[i] : i \in 1..Len(Parsed.args)}
          ELSE {})

\* C11: resolution order is fixed and total: a builtin name resolves to the
\* builtin even when PATH holds an executable of that name, any other word
\* to the executable of the first PATH directory that holds one, and a word
\* found nowhere to not-found; exactly one of the three.
C11_ResolutionOrder ==
    \A word \in ResolvedWords :
        /\ search_command(word) = ExpectedResolution(word)
        /\ search_command(word).kind \in {"Builtin", "Executable", "None"}

C11_Witness ==
    /\ pc = "Wait"
    /\ IsSome(tokenized)
    /\ Parsed.command = "ls"
    /\ Cardinality(DirsHolding("ls")) = 2
    /\ search_command("ls").path = "/usr/bin/ls"
    /\ \E c \in children : c.command = "ls"

\* C12: type with one argument emits exactly one line, classified as the
\* resolver classifies that word: `<name> is a shell builtin`, `<name> is
\* <path>` (both non-error) or `<name>: not found` (error); with no argument
\* only the error `type: missing argument`, with two or more only the error
\* `type: too many arguments`.
ExpectedTypeLine(word) ==
    IF ExpectedResolution(word).kind = "Builtin"
    THEN OutputLine(word \o " is a shell builtin", FALSE)
    ELSE IF ExpectedResolution(word).kind = "Executable"
    THEN OutputLine(word \o " is " \o ExpectedResolution(word).path, FALSE)
    ELSE OutputLine(word \o ": not found", TRUE)

C12_TypeAgreesWithResolver ==
    [][(/\ pc = "ReadLine"
        /\ IsSome(tokenized')
        /\ TargetsOpen(Parsed')
        /\ Parsed'.command = "type") =>
           /\ pc' = "Prompt"
           /\ Len(Parsed'.args) = 0 =>
                  emitted' = <<OutputLine("type: missing argument", TRUE)>>
           /\ Len(Parsed'.args) = 1 =>
                  /\ emitted' = <<ExpectedTypeLine(Parsed'.args[1])>>
                  /\ ExpectedResolution(Parsed'.args[1]) = search_command(Parsed'.args[1])
           /\ Len(Parsed'.args) >= 2 =>
                  emitted' = <<OutputLine("type: too many arguments", TRUE)>>]_vars

C12_Witness ==
    /\ pc = "Prompt"
    /\ IsSome(tokenized)
    /\ Parsed.command = "type"
    /\ Parsed.args = <<"echo">>
    /\ "echo" \in ExecutablesIn("/bin")
    /\ emitted = <<OutputLine("echo is a shell builtin", FALSE)>>

\* the plain arguments of a line: the tokens after the command word that
\* are neither an operator in operator position nor the path after one
ArgPositions(tokens) ==
    {i \in 2..Len(tokens) : /\ i \notin OperatorPositions(tokens, 2)
                            /\ (i - 1) \notin OperatorPositions(tokens, 2)}

NthOf(S, k) == CHOOSE i \in S : Cardinality({j \in S : j <= i}) = k

PlainArgs(tokens) ==
    [k \in 1..Cardinality(ArgPositions(tokens)) |->
        tokens[NthOf(ArgPositions(tokens), k)]]

\* the first n words, in order, with one space between neighbours
RECURSIVE SpacedUpTo(_, _)
SpacedUpTo(words, n) ==
    IF n = 0 THEN ""
    ELSE IF n = 1 THEN words[1]
    ELSE SpacedUpTo(words, n - 1) \o " " \o words[n]

\* C13: echo produces exactly one line, non-error, its arguments in order
\* joined by single spaces (the empty line for no argument); the line is a
\* function of the plain arguments only, so it is the same with and without
\* redirections, and no operator or path of a redirection appears in it.
C13_EchoOneLine ==
    [][(/\ pc = "ReadLine"
        /\ IsSome(tokenized')
        /\ TargetsOpen(Parsed')
        /\ Parsed'.command = "echo") =>
           /\ pc' = "Prompt"
           /\ emitted' = <<OutputLine(SpacedUpTo(PlainArgs(input'),
                                                  Len(PlainArgs(input'))), FALSE)>>]_vars

C13_Witness ==
    /\ pc = "Prompt"
    /\ input = <<"echo", "hi", "2>", "/out", ">>", "/out">>
    /\ emitted = <<OutputLine("hi", FALSE)>>
    /\ files["/out"].data = <<"hi\n">>

\* C17: in an accepted token sequence the command is token 0, whatever it
\* is; from index 1 each operator takes the one token after it as its path,
\* even an operator string; args is exactly the remaining tokens in order;
\* every token after the command is operator, path or argument, once.
C17_TokensAccountedFor ==
    (pc = "Parsed" /\ IsSome(tokenized)) =>
        /\ Parsed.command = input[1]
        /\ Parsed.args = PlainArgs(input)
        /\ Len(Parsed.args) + 2 * Cardinality(OperatorPositions(input, 2)) = Len(input) - 1
        /\ Parsed.redirect_stdout =
               IF HasOperator(input, StdoutOps)
               THEN Some(input[LastOperator(input, StdoutOps) + 1]) ELSE None
        /\ Parsed.redirect_stderr =
               IF HasOperator(input, StderrOps)
               THEN Some(input[LastOperator(input, StderrOps) + 1]) ELSE None

C17_Witness ==
    /\ pc = "Parsed"
    /\ input = <<">", "hi", ">", ">", "echo">>
    /\ IsSome(tokenized)
    /\ Parsed.command = ">"
    /\ Parsed.args = <<"hi", "echo">>
    /\ Parsed.redirect_stdout = Some(">")

\* C14: at the start of an iteration (Prompt, and the read that follows)
\* the shell holds no redirect file handle of an earlier line, whether that
\* line ran a builtin, an external command, a command whose spawn failed or
\* an unresolved command; handles are only held while main waits for a child.
C14_HandlesReleased ==
    /\ pc \in {"Prompt", "ReadLine"} => handles = {}
    /\ handles # {} => (pc = "Wait" /\ IsSome(tokenized) /\ handles \subseteq
                            OpenedHandles(Parsed) \cup ChildHandles(Parsed))

C14_Witness ==
    /\ pc = "Prompt"
    /\ IsSome(tokenized)
    /\ Parsed.command = "nope"
    /\ Parsed.redirect_stdout = Some("/out")
    /\ Parsed.redirect_stderr = Some("/out")
    /\ files["/out"].exists
    /\ handles = {}

\* the lines of an Output with a given tag, as written: each with a newline
Chunks(lines, is_err) ==
    LET tagged == SelectSeq(lines, LAMBDA l : l.is_err = is_err)
    IN [i \in 1..Len(tagged) |-> tagged[i].line \o "\n"]

\* the redirections of a parsed line onto one path
IsStdoutTarget(t, p) == t.redirect_stdout = Some(p)
IsStderrTarget(t, p) == t.redirect_stderr = Some(p)
IsTarget(t, p) == IsStdoutTarget(t, p) \/ IsStderrTarget(t, p)

\* a target is truncated unless every redirection onto it is in append mode
Truncated(t, p) ==
    \/ IsStdoutTarget(t, p) /\ ~t.append_stdout
    \/ IsStderrTarget(t, p) /\ ~t.append_stderr

\* what a file holds once the targets are opened
KeptData(t, p, before) == IF Truncated(t, p) THEN <<>> ELSE before

\* what the sinks onto a path receive of the lines of a builtin
RoutedTo(t, p, lines) ==
    (IF IsStdoutTarget(t, p) THEN Chunks(lines, FALSE) ELSE <<>>)
        \o (IF IsStderrTarget(t, p) THEN Chunks(lines, TRUE) ELSE <<>>)

\* C15: every line a builtin produces is written, with a newline, to the
\* sink of its tag: non-error lines to the stdout redirect file if there is
\* one, else to the inherited stdout; error lines to the stderr redirect
\* file if there is one, else to the inherited stderr; nothing reaches the
\* other sink, and the order of the lines is kept.
C15_BuiltinOutputRouting ==
    [][(/\ pc = "ReadLine"
        /\ IsSome(tokenized')
        /\ TargetsOpen(Parsed')
        /\ Parsed'.command \in {"exit", "echo", "type", "pwd", "cd"}
        /\ pc' = "Prompt") =>
           /\ term_out' = term_out \o (IF IsSome(Parsed'.redirect_stdout) THEN <<>>
                                       ELSE Chunks(emitted', FALSE))
           /\ term_err' = term_err \o (IF IsSome(Parsed'.redirect_stderr) THEN <<>>
                                       ELSE Chunks(emitted', TRUE))
           /\ \A p \in FilePaths :
                  IF IsTarget(Parsed', p)
                  THEN files'[p] =
                           [exists |-> TRUE,
                            data |-> KeptData(Parsed', p, files[p].data)
                                         \o RoutedTo(Parsed', p, emitted')]
                  ELSE files'[p] = files[p]]_vars

C15_Witness ==
    /\ pc = "Prompt"
    /\ input = <<"exit", "42", "42", ">", "/out">>
    /\ emitted = <<OutputLine("exit: too many arguments", TRUE)>>
    /\ term_err = <<"exit: too many arguments\n">>
    /\ term_out = <<"$ ">>
    /\ files["/out"] = [exists |-> TRUE, data |-> <<>>]

\* what cd does once its target is the value of HOME
HomeOutcome(before) ==
    IF ~IsSome(home)
    THEN [cwd |-> before,
          emitted |-> <<OutputLine("cd: unable to get home directory", TRUE)>>]
    ELSE IF Unwrap(home) \in Directories
    THEN [cwd |-> Unwrap(home), emitted |-> <<>>]
    ELSE [cwd |-> before,
          emitted |-> <<OutputLine("cd: " \o Unwrap(home)
                                       \o ": No such file or directory", TRUE)>>]

\* C16: cd with no argument and `cd ~` do the same in every environment:
\* the target is HOME; unset, one error line and the directory is kept; set,
\* the directory becomes HOME, or on failure `cd: <HOME>: No such file or
\* directory` and the directory is kept.  cd with two or more arguments
\* emits only `cd: too many arguments` and keeps the directory.
C16_CdHome ==
    [][(/\ pc = "ReadLine"
        /\ IsSome(tokenized')
        /\ TargetsOpen(Parsed')
        /\ Parsed'.command = "cd") =>
           /\ pc' = "Prompt"
           /\ Parsed'.args \in {<<>>, <<"~">>} =>
                  /\ cwd' = HomeOutcome(cwd).cwd
                  /\ emitted' = HomeOutcome(cwd).emitted
           /\ Len(Parsed'.args) >= 2 =>
                  /\ cwd' = cwd
                  /\ emitted' = <<OutputLine("cd: too many arguments", TRUE)>>]_vars

C16_Witness ==
    /\ pc = "Prompt"
    /\ IsSome(tokenized)
    /\ Parsed.command = "cd"
    /\ Parsed.args = <<"~">>
    /\ home = Some("/nx")
    /\ cwd = "/tmp"
    /\ emitted = <<OutputLine("cd: /nx: No such file or directory", TRUE)>>

\* C18: the redirect targets are opened before the command word is
\* resolved: after a well-formed line with a redirect target the file
\* exists and, if opened in truncate mode, holds nothing of its previous
\* content, whatever the line does: a builtin that runs, a builtin that
\* fails its arity check, an external command, or a word that is not found;
\* in the last case the file is empty (unchanged in append mode) and
\* `<word>: command not found` is on the inherited stderr.
C18_TargetsOpenedFirst ==
    [][(/\ pc = "ReadLine"
        /\ IsSome(tokenized')
        /\ TargetsOpen(Parsed')) =>
           \A p \in FilePaths : IsTarget(Parsed', p) =>
               /\ files'[p].exists
               /\ Truncated(Parsed', p) =>
                      files'[p].data = RoutedTo(Parsed', p, emitted')
               /\ NotResolvable(Parsed'.command) =>
                      /\ files'[p].data = KeptData(Parsed', p, files[p].data)
                      /\ term_err' = Append(term_err,
                                            Parsed'.command \o ": command not found\n")]_vars

C18_Witness ==
    /\ pc = "Prompt"
    /\ input = <<"nope", "2>", "/out">>
    /\ files["/out"] = [exists |-> TRUE, data |-> <<>>]
    /\ term_err = <<"nope: command not found\n">>

====
